---------------------------- MODULE Spec2Model ----------------------------
(***************************************************************************)
(* Model of the transcode orchestration of compressor_video:               *)
(*   src/video_compressor/compressor.py  VideoCompressor                    *)
(*   src/ui/main_window.py               CompressionThread,                 *)
(*                                       FolderCompressionThread            *)
(*                                                                         *)
(* One worker thread runs CompressionThread.run ("single"),                *)
(* FolderCompressionThread.run ("batch") or calls compress_video without a *)
(* progress callback ("direct").  The requesting (UI) context may call the *)
(* thread's stop() once while the thread runs.  The encoding process is an *)
(* opaque executable: it writes telemetry lines to its stdout pipe, may    *)
(* block in a write to its full stderr pipe, exits when it likes, may      *)
(* ignore SIGTERM and always dies on SIGKILL.                              *)
(*                                                                         *)
(* SpecFn is a second specification, of the functions that need no thread: *)
(* the percent formulas, _prepare_command, estimate_output_size and        *)
(* update_eta are each called once on arguments drawn from bounded sets.   *)
(*                                                                         *)
(* Time is counted in ticks of 0.25 s.  Percentages are computed as the    *)
(* source computes them, in binary64 floating point.                       *)
(***************************************************************************)
EXTENDS Integers, Sequences, FiniteSets, TLC

(* ------------------------------ bounds -------------------------------- *)
\* largest plan (number of video files of a batch)
MaxFiles == 2
\* telemetry lines one process writes at most
MaxLines == 2
\* lines the stdout pipe buffers before the writer blocks
PipeCap == 1
\* ticks of wall-clock time that pass during one run
MaxTicks == 2

(* ------------------------- program constants -------------------------- *)
\* update_interval = 0.5 s, in ticks
update_interval == 2
\* process.wait(timeout=5): the grace period, in seconds
GracePeriod == 5

Modes == {"single", "batch", "direct"}
\* codec strings handed to the threads: a software/hardware codec, a
\* software-only codec and a string outside the supported set
Codecs == {"h264", "vp9", "xvid"}
HwAccels == {"none", "nvidia"}
\* durations ffprobe may report, in seconds (0: unparsable or zero output)
Durations == {0, 2}
\* os.path.getsize of the j-th input file, in MB
FileSize(j) == j
\* exit codes the process may choose on its own
OwnExitCodes == {0, 1}

\* a telemetry line is a key=value pair; the value is a digit string
\* (modelled by the number it denotes) or some other text
Lines ==
    { [key |-> "out_time_ms", val |-> <<1000000>>],
      [key |-> "out_time_ms", val |-> <<3000000>>],
      [key |-> "out_time_ms", val |-> <<>>],
      [key |-> "frame", val |-> <<12>>] }

Last(s) == s[Len(s)]

Min(a, b) == IF a <= b THEN a ELSE b

(* ------------------- binary64 floating point arithmetic --------------- *)
\* Python's float is the IEEE 754 binary64: a non-negative one is modelled
\* as [m |-> limbs, e |-> exponent], the limbs being the digits in base
\* Base, most significant first, of an integer that is multiplied by 2^e.
\* Every operation rounds its exact result to Precision bits, to nearest,
\* ties to even, as the hardware does.
Precision == 53
LimbBits == 10
Base == 1024
DivLimbs == 8

RECURSIVE Pow2(_)
Pow2(k) == IF k = 0 THEN 1 ELSE 2 * Pow2(k - 1)

RECURSIVE BitLen(_)
BitLen(n) == IF n = 0 THEN 0 ELSE 1 + BitLen(n \div 2)

RECURSIVE IntLimbs(_)
IntLimbs(n) ==
    IF n = 0 THEN <<>> ELSE Append(IntLimbs(n \div Base), n % Base)

RECURSIVE LimbsInt(_)
LimbsInt(m) ==
    IF m = <<>> THEN 0
    ELSE Base * LimbsInt(SubSeq(m, 1, Len(m) - 1)) + m[Len(m)]

Zeros(k) == [x \in 1 .. k |-> 0]

RECURSIVE Strip(_)
Strip(m) == IF m # <<>> /\ m[1] = 0 THEN Strip(Tail(m)) ELSE m

\* the number of bits of a stripped limb sequence
Bits(m) ==
    IF m = <<>> THEN 0 ELSE BitLen(m[1]) + LimbBits * (Len(m) - 1)

\* bit j (0 is the least significant) of m
BitAt(m, j) ==
    IF j \div LimbBits >= Len(m) THEN 0
    ELSE (m[Len(m) - j \div LimbBits] \div Pow2(j % LimbBits)) % 2

\* whether some bit of m below bit j is set
LowNonZero(m, j) ==
    \/ \E t \in 0 .. j \div LimbBits - 1 : t < Len(m) /\ m[Len(m) - t] # 0
    \/ /\ j \div LimbBits < Len(m)
       /\ m[Len(m) - j \div LimbBits] % Pow2(j % LimbBits) # 0

\* m without its s lowest bits
ShiftRight(m, s) ==
    LET a == s \div LimbBits
        c == s % LimbBits
        kept == IF a >= Len(m) THEN <<>> ELSE SubSeq(m, 1, Len(m) - a)
    IN [i \in 1 .. Len(kept) |->
           ((IF i = 1 THEN 0 ELSE kept[i - 1]) % Pow2(c)) * Pow2(LimbBits - c)
           + kept[i] \div Pow2(c)]

\* m * k + carry for an integer k < 2^20
RECURSIVE MulLimbs(_, _, _)
MulLimbs(m, k, carry) ==
    IF m = <<>> THEN IntLimbs(carry)
    ELSE LET cur == m[Len(m)] * k + carry
         IN Append(MulLimbs(SubSeq(m, 1, Len(m) - 1), k, cur \div Base),
                   cur % Base)

\* m with s zero bits appended
ShiftLeft(m, s) ==
    Strip(MulLimbs(m, Pow2(s % LimbBits), 0)) \o Zeros(s \div LimbBits)

\* m + 1
RECURSIVE Inc(_)
Inc(m) ==
    IF m = <<>> THEN <<1>>
    ELSE IF m[Len(m)] < Base - 1 THEN [m EXCEPT ![Len(m)] = @ + 1]
    ELSE Append(Inc(SubSeq(m, 1, Len(m) - 1)), 0)

\* the double nearest to m * 2^e (plus a non-zero tail below it when
\* sticky)
Round(limbs, e, sticky) ==
    LET m == Strip(limbs)
        s == Bits(m) - Precision
    IN IF s <= 0 THEN [m |-> m, e |-> e]
       ELSE LET keep == Strip(ShiftRight(m, s))
                guard == BitAt(m, s - 1)
                tail == sticky \/ LowNonZero(m, s - 1)
                up == guard = 1 /\ (tail \/ keep[Len(keep)] % 2 = 1)
            IN [m |-> IF up THEN Inc(keep) ELSE keep, e |-> e + s]

\* long division of m by k < 2^20, entered with remainder r and the
\* quotient limbs q so far
RECURSIVE LongDiv(_, _, _, _)
LongDiv(m, k, r, q) ==
    IF m = <<>> THEN [q |-> q, r |-> r]
    ELSE LET cur == r * Base + m[1]
         IN LongDiv(Tail(m), k, cur % k, Append(q, cur \div k))

\* x / k for an integer k > 0: the dividend gets DivLimbs zero limbs so
\* that the quotient has more than Precision + 1 bits
FDivInt(x, k) ==
    IF x.m = <<>> THEN x
    ELSE LET d == LongDiv(x.m \o Zeros(DivLimbs), k, 0, <<>>)
         IN Round(d.q, x.e - LimbBits * DivLimbs, d.r # 0)

\* x * k for an integer k >= 0
FMulInt(x, k) == Round(MulLimbs(x.m, k, 0), x.e, FALSE)

\* a + b + carry for limb sequences of one length
RECURSIVE AddLimbs(_, _, _)
AddLimbs(a, b, carry) ==
    IF a = <<>> THEN IntLimbs(carry)
    ELSE LET cur == a[Len(a)] + b[Len(b)] + carry
         IN Append(AddLimbs(SubSeq(a, 1, Len(a) - 1),
                            SubSeq(b, 1, Len(b) - 1), cur \div Base),
                   cur % Base)

\* k + x for an integer k >= 0
FAddInt(k, x) ==
    LET e == IF x.e < 0 THEN x.e ELSE 0
        xm == ShiftLeft(x.m, x.e - e)
        km == ShiftLeft(IntLimbs(k), 0 - e)
        n == IF Len(xm) > Len(km) THEN Len(xm) ELSE Len(km)
    IN Round(AddLimbs(Zeros(n - Len(xm)) \o xm, Zeros(n - Len(km)) \o km, 0),
             e, FALSE)

\* float(n) for an integer n >= 0
FInt(n) == Round(IntLimbs(n), 0, FALSE)

\* int(x): the integer part
FTrunc(x) ==
    IF x.e >= 0 THEN LimbsInt(ShiftLeft(x.m, x.e))
    ELSE LimbsInt(Strip(ShiftRight(x.m, 0 - x.e)))

\* x * 2^k, which is exact
FScale(x, k) == [m |-> x.m, e |-> x.e + k]

\* the product of two limb sequences
RECURSIVE MulFull(_, _)
MulFull(a, b) ==
    IF b = <<>> THEN <<>>
    ELSE LET hi == Append(MulFull(a, SubSeq(b, 1, Len(b) - 1)), 0)
             lo == MulLimbs(a, b[Len(b)], 0)
             n == IF Len(hi) > Len(lo) THEN Len(hi) ELSE Len(lo)
         IN AddLimbs(Zeros(n - Len(hi)) \o hi, Zeros(n - Len(lo)) \o lo, 0)

\* x * y
FMul(x, y) == Round(MulFull(x.m, y.m), x.e + y.e, FALSE)

\* a < b for limb sequences of one length
RECURSIVE LexLess(_, _)
LexLess(a, b) ==
    IF a = <<>> THEN FALSE
    ELSE IF a[1] # b[1] THEN a[1] < b[1]
    ELSE LexLess(Tail(a), Tail(b))

\* x < y
FLess(x, y) ==
    IF y.m = <<>> THEN FALSE
    ELSE IF x.m = <<>> THEN TRUE
    ELSE IF Bits(x.m) + x.e # Bits(y.m) + y.e
    THEN Bits(x.m) + x.e < Bits(y.m) + y.e
    ELSE LET e == Min(x.e, y.e)
         IN LexLess(ShiftLeft(x.m, x.e - e), ShiftLeft(y.m, y.e - e))

\* x == y
FEq(x, y) == ~FLess(x, y) /\ ~FLess(y, x)

\* a - b - borrow for limb sequences of one length, a >= b + borrow
RECURSIVE SubLimbs(_, _, _)
SubLimbs(a, b, borrow) ==
    IF a = <<>> THEN <<>>
    ELSE LET cur == a[Len(a)] - b[Len(b)] - borrow
         IN Append(SubLimbs(SubSeq(a, 1, Len(a) - 1),
                            SubSeq(b, 1, Len(b) - 1),
                            IF cur < 0 THEN 1 ELSE 0),
                   IF cur < 0 THEN cur + Base ELSE cur)

\* x - y for x >= y
FSubAbs(x, y) ==
    LET e == Min(x.e, y.e)
        xm == ShiftLeft(x.m, x.e - e)
        ym == ShiftLeft(y.m, y.e - e)
        n == IF Len(xm) > Len(ym) THEN Len(xm) ELSE Len(ym)
    IN Round(SubLimbs(Zeros(n - Len(xm)) \o xm, Zeros(n - Len(ym)) \o ym, 0),
             e, FALSE)

\* x - y, a signed value: neg tells whether it is below zero, abs is its
\* magnitude
FSub(x, y) ==
    IF FLess(x, y) THEN [neg |-> TRUE, abs |-> FSubAbs(y, x)]
    ELSE [neg |-> FALSE, abs |-> FSubAbs(x, y)]

\* max(a, b) and min(a, b): the first argument unless the second is
\* greater, respectively smaller
FMax(a, b) == IF FLess(a, b) THEN b ELSE a
FMin(a, b) == IF FLess(b, a) THEN b ELSE a

(* --------------------------- pure functions --------------------------- *)
\* time_pattern.search(line): <<n>> when the line holds out_time_ms=<digits>,
\* <<>> when there is no match
time_pattern_search(line) ==
    IF line.key = "out_time_ms" /\ line.val # <<>> THEN line.val ELSE <<>>

\* progress = min(100, int((current_ms / 1000000 / total_duration) * 100)),
\* for total_duration > 0
ProgressOf(current_ms, total_duration) ==
    Min(100, FTrunc(FMulInt(FDivInt(FDivInt(FInt(current_ms), 1000000),
                                    total_duration), 100)))

\* overall_percent = int((total_processed + percent / 100) / total_files * 100)
OverallOf(processed, percent, files) ==
    FTrunc(FMulInt(FDivInt(FAddInt(processed, FDivInt(FInt(percent), 100)),
                           files), 100))

(* -------------------------- command building -------------------------- *)
\* str(n) is ToString(n); a function's result is [raised |-> the exception
\* it raised, "" when it returned, value |-> what it returned]
Returned(v) == [raised |-> "", value |-> v]
Raised(e) == [raised |-> e, value |-> <<>>]

\* crf * 1.23, truncated by int(): 1.23 denotes the double nearest to
\* 123 / 100
vp9_crf(crf) == Min(63, FTrunc(FMulInt(FDivInt(FInt(123), 100), crf)))

_get_hw_accel_args_NoCrf(c, crf, hardware_acceleration) ==
    IF c \notin {"h264", "h265"} THEN <<>>
    ELSE CASE hardware_acceleration = "nvidia" ->
                <<"-c:v", IF c = "h264" THEN "h264_nvenc" ELSE "hevc_nvenc",
                  "-preset", "p4", "-tune", "hq">>
           [] hardware_acceleration = "amd" ->
                <<"-c:v", IF c = "h264" THEN "h264_amf" ELSE "hevc_amf",
                  "-quality", "quality">>
           [] hardware_acceleration = "intel" ->
                <<"-c:v", IF c = "h264" THEN "h264_qsv" ELSE "hevc_qsv",
                  "-preset", "slower">>
           [] OTHER -> <<>>

\* _get_hw_accel_args: the encoder of the accelerator for h264 and h265,
\* nothing for another accelerator or codec; then -crf for h264 and h265
_get_hw_accel_args(c, crf, hardware_acceleration) ==
    (CASE hardware_acceleration = "nvidia" /\ c = "h264" ->
            <<"-c:v", "h264_nvenc", "-preset", "p4", "-tune", "hq">>
       [] hardware_acceleration = "nvidia" /\ c = "h265" ->
            <<"-c:v", "hevc_nvenc", "-preset", "p4", "-tune", "hq">>
       [] hardware_acceleration = "amd" /\ c = "h264" ->
            <<"-c:v", "h264_amf", "-quality", "quality">>
       [] hardware_acceleration = "amd" /\ c = "h265" ->
            <<"-c:v", "hevc_amf", "-quality", "quality">>
       [] hardware_acceleration = "intel" /\ c = "h264" ->
            <<"-c:v", "h264_qsv", "-preset", "slower">>
       [] hardware_acceleration = "intel" /\ c = "h265" ->
            <<"-c:v", "hevc_qsv", "-preset", "slower">>
       [] OTHER -> <<>>)
    \o (IF c \in {"h264", "h265"} THEN <<"-crf", ToString(crf)>> ELSE <<>>)

_get_software_codec_args(c, crf) ==
    CASE c = "h264" ->
           Returned(<<"-c:v", "libx264", "-preset", "medium",
                      "-crf", ToString(crf)>>)
      [] c = "h265" ->
           Returned(<<"-c:v", "libx265", "-preset", "medium",
                      "-crf", ToString(crf)>>)
      [] c = "vp9" ->
           Returned(<<"-c:v", "libvpx-vp9", "-b:v", "0",
                      "-crf", ToString(vp9_crf(crf))>>)
      [] c = "av1" ->
           Returned(<<"-c:v", "libaom-av1", "-crf", ToString(crf),
                      "-b:v", "0", "-strict", "experimental">>)
      [] OTHER -> Raised("ValueError")

\* hardware_acceleration "none" is None
_prepare_command(input_file, output_file, c, crf, hardware_acceleration) ==
    LET args == IF hardware_acceleration # "none"
                THEN Returned(_get_hw_accel_args(c, crf,
                                                 hardware_acceleration))
                ELSE _get_software_codec_args(c, crf)
    IN IF args.raised # "" THEN args
       ELSE Returned(<<"ffmpeg", "-i", input_file,
                       "-thread_queue_size", "4096">>
                     \o args.value
                     \o <<"-c:a", "copy", "-progress", "-", "-nostats",
                          "-y", output_file>>)

(* --------------------------- size estimation -------------------------- *)
\* what an ffprobe run gives: [kind |-> "raise"] when running it raises,
\* [kind |-> "text"] when its output is no number, [kind |-> "int",
\* value |-> n] when its output is the number n

\* _get_video_duration: float(result.stdout.strip()), 0.0 on ValueError;
\* check=True raises CalledProcessError
_get_video_duration(dprobe) ==
    CASE dprobe.kind = "raise" -> Raised("CalledProcessError")
      [] dprobe.kind = "text" -> Returned(FInt(0))
      [] OTHER -> Returned(FInt(dprobe.value))

\* _get_video_bitrate: int(result.stdout.strip()); except (ValueError,
\* TypeError): int(filesize / duration) for a positive duration, else 0
_get_video_bitrate(bprobe, dprobe, getsize) ==
    CASE bprobe.kind = "raise" -> Raised("OSError")
      [] bprobe.kind = "int" -> Returned(bprobe.value)
      [] OTHER ->
           LET d == _get_video_duration(dprobe) IN
           IF d.raised # "" THEN d
           ELSE IF FLess(FInt(0), d.value)
           THEN Returned(FTrunc(FDivInt(FInt(getsize * 8), dprobe.value)))
           ELSE Returned(0)

\* base_compression_ratio.get(codec, 0.35)
Reduction(c) ==
    CASE c = "h264" -> FDivInt(FInt(35), 100)
      [] c = "h265" -> FDivInt(FInt(25), 100)
      [] c = "vp9" -> FDivInt(FInt(22), 100)
      [] c = "av1" -> FDivInt(FInt(18), 100)
      [] OTHER -> FDivInt(FInt(35), 100)

\* crf_factor = 2 ** ((crf_mid - crf) / 6.0) lies in [2^k, 2^(k+1)) for
\* k = CrfExponent(crf)
CrfExponent(crf) == (23 - crf) \div 6

\* the 53-bit significands, in limbs, of the doubles that
\* 2 ** ((23 - crf) / 6.0) evaluates to for crf = 0, 1, ..., 51
CrfFactorLimbs ==
    << <<7, 130, 248, 116, 944, 298>>,
       <<6, 357, 1018, 595, 859, 572>>,
       <<5, 672, 633, 615, 974, 973>>,
       <<5, 40, 651, 920, 860, 651>>,
       <<4, 501, 619, 60, 501, 703>>,
       <<4, 0, 0, 0, 0, 0>>,
       <<7, 130, 248, 116, 944, 298>>,
       <<6, 357, 1018, 595, 859, 572>>,
       <<5, 672, 633, 615, 974, 973>>,
       <<5, 40, 651, 920, 860, 651>>,
       <<4, 501, 619, 60, 501, 703>>,
       <<4, 0, 0, 0, 0, 0>>,
       <<7, 130, 248, 116, 944, 297>>,
       <<6, 357, 1018, 595, 859, 573>>,
       <<5, 672, 633, 615, 974, 973>>,
       <<5, 40, 651, 920, 860, 651>>,
       <<4, 501, 619, 60, 501, 704>>,
       <<4, 0, 0, 0, 0, 0>>,
       <<7, 130, 248, 116, 944, 297>>,
       <<6, 357, 1018, 595, 859, 572>>,
       <<5, 672, 633, 615, 974, 973>>,
       <<5, 40, 651, 920, 860, 651>>,
       <<4, 501, 619, 60, 501, 704>>,
       <<4, 0, 0, 0, 0, 0>>,
       <<7, 130, 248, 116, 944, 297>>,
       <<6, 357, 1018, 595, 859, 573>>,
       <<5, 672, 633, 615, 974, 973>>,
       <<5, 40, 651, 920, 860, 651>>,
       <<4, 501, 619, 60, 501, 704>>,
       <<4, 0, 0, 0, 0, 0>>,
       <<7, 130, 248, 116, 944, 297>>,
       <<6, 357, 1018, 595, 859, 573>>,
       <<5, 672, 633, 615, 974, 973>>,
       <<5, 40, 651, 920, 860, 651>>,
       <<4, 501, 619, 60, 501, 704>>,
       <<4, 0, 0, 0, 0, 0>>,
       <<7, 130, 248, 116, 944, 298>>,
       <<6, 357, 1018, 595, 859, 572>>,
       <<5, 672, 633, 615, 974, 973>>,
       <<5, 40, 651, 920, 860, 651>>,
       <<4, 501, 619, 60, 501, 703>>,
       <<4, 0, 0, 0, 0, 0>>,
       <<7, 130, 248, 116, 944, 298>>,
       <<6, 357, 1018, 595, 859, 572>>,
       <<5, 672, 633, 615, 974, 973>>,
       <<5, 40, 651, 920, 860, 651>>,
       <<4, 501, 619, 60, 501, 703>>,
       <<4, 0, 0, 0, 0, 0>>,
       <<7, 130, 248, 116, 944, 296>>,
       <<6, 357, 1018, 595, 859, 574>>,
       <<5, 672, 633, 615, 974, 973>>,
       <<5, 40, 651, 920, 860, 650>> >>

\* mutant of crf_factor: the sign of the exponent is lost,
\* 2 ** ((crf - 28) / 6.0)
crf_factor_Rising(crf) ==
    [m |-> CrfFactorLimbs[52 - crf],
     e |-> CrfExponent(51 - crf) - (Precision - 1)]

\* crf_factor = 2 ** ((crf_mid - crf) / 6.0), for crf in 0 .. 51
crf_factor(crf) ==
    [m |-> CrfFactorLimbs[crf + 1], e |-> CrfExponent(crf) - (Precision - 1)]

\* _estimate_using_bitrate, for a duration that is a whole number
_estimate_using_bitrate(c, crf, original_bitrate, d) ==
    LET estimated_bitrate ==
            FMul(FMulInt(Reduction(c), original_bitrate), crf_factor(crf))
        estimated_size_mb ==
            FDivInt(FDivInt(FMulInt(estimated_bitrate, d), 8), 1048576)
    IN FMax(FDivInt(FInt(1), 10), estimated_size_mb)

\* lines 217-222, the body of try: Raised(e), Returned(<<x>>) for return x
\* and Returned(<<>>) when control leaves the block at its end
EstimateTry(c, crf, bprobe, dprobe, getsize) ==
    LET original_bitrate == _get_video_bitrate(bprobe, dprobe, getsize)
        video_duration == _get_video_duration(dprobe)
    IN IF original_bitrate.raised # "" THEN original_bitrate
       ELSE IF video_duration.raised # "" THEN video_duration
       ELSE IF original_bitrate.value > 0
               /\ FLess(FInt(0), video_duration.value)
       THEN Returned(<<_estimate_using_bitrate(c, crf, original_bitrate.value,
                                               dprobe.value)>>)
       ELSE Returned(<<>>)

\* lines 224-231: input_size_mb = getsize / (1024 * 1024), which is exact
EstimateByRatio(c, crf, getsize) ==
    LET compression_ratio ==
            FMin(FInt(1), FMul(Reduction(c), crf_factor(crf)))
        estimated_size_mb == FScale(FMulInt(compression_ratio, getsize), -20)
    IN FMax(FDivInt(FInt(1), 10), estimated_size_mb)

estimate_output_size_NoExcept(exists, getsize, c, crf, bprobe, dprobe) ==
    IF ~exists THEN Returned(FInt(0))
    ELSE LET t == EstimateTry(c, crf, bprobe, dprobe, getsize) IN
         IF t.raised # "" THEN t
         ELSE IF t.value # <<>> THEN Returned(t.value[1])
         ELSE Returned(EstimateByRatio(c, crf, getsize))

\* estimate_output_size on a file that exists or not and has getsize
\* bytes, with the outcomes of the two probes
estimate_output_size(exists, getsize, c, crf, bprobe, dprobe) ==
    IF ~exists THEN Returned(FInt(0))
    ELSE LET t == EstimateTry(c, crf, bprobe, dprobe, getsize) IN
         IF t.raised = "" /\ t.value # <<>> THEN Returned(t.value[1])
         ELSE Returned(EstimateByRatio(c, crf, getsize))

\* _get_software_codec_args raises ValueError for an unknown codec;
\* _get_hw_accel_args never raises
PrepareRaises(c, hw) ==
    hw = "none" /\ c \notin {"h264", "h265", "vp9", "av1"}


(* ----------------------------- MainWindow ----------------------------- *)
\* ticks of the wall clock in one second
TicksPerSecond == 4

\* current_time - self.start_time for clock readings that many ticks apart
ElapsedOf(ticks) == FDivInt(FInt(ticks), TicksPerSecond)

\* mutant of RemainingOf: the time already spent is not taken off
RemainingOf_Total(progress, elapsed) ==
    [neg |-> FALSE, abs |-> FDivInt(FMulInt(elapsed, 100), progress)]

\* lines 430-431: total_estimated = elapsed * 100 / progress and
\* remaining = total_estimated - elapsed
RemainingOf(progress, elapsed) ==
    LET total_estimated == FDivInt(FMulInt(elapsed, 100), progress)
    IN FSub(total_estimated, elapsed)

\* lines 434-443: the f-string pieces of time_str for a number of seconds
\* whose integer part is whole and that is below 60, below 3600 or not
time_str(whole, below60, below3600) ==
    IF below60 THEN <<whole, "sec">>
    ELSE IF below3600 THEN <<whole \div 60, "min", whole % 60, "sec">>
    ELSE <<whole \div 3600, "h", (whole % 3600) \div 60, "min">>

\* update_eta: what the ETA label shows after the call; int() truncates
\* towards zero, and remaining // 60, remaining % 60 are exact, so that
\* their integer parts are those of the integer part of remaining
update_eta(progress, elapsed) ==
    IF progress <= 0 THEN <<"--:--">>
    ELSE LET remaining == RemainingOf(progress, elapsed)
         IN IF remaining.neg
            THEN time_str(0 - FTrunc(remaining.abs), TRUE, TRUE)
            ELSE time_str(FTrunc(remaining.abs),
                          FLess(remaining.abs, FInt(60)),
                          FLess(remaining.abs, FInt(3600)))

(* ------------------------------- state -------------------------------- *)
VARIABLES
    mode,                 \* which entry point the worker runs
    codec, hw_accel,      \* self.codec, self.hw_accel
    total_files,          \* len(self.video_files)
    pc,                   \* position of the worker thread
    i,                    \* 1-based index of the current job
    running,              \* FolderCompressionThread.running
    stopCalled,           \* the requesting context has called stop()
    stopReturned,         \* that call has returned
    admitted,             \* history: the last job past its cancellation
                          \* check when stop() set the flag
    procState,            \* per job: "none", "running" or "exited"
    procExit,             \* per job: <<>> or <<exit status>>
    started,              \* jobs whose process was spawned, in spawn order
    signals,              \* per job: signals delivered to its process
    process,              \* compress_video's local: 0 (None) or the job
    returncode,           \* process.returncode: <<>> (None) or <<code>>
    pipe,                 \* lines buffered in the stdout pipe
    written,              \* lines the current process has written
    stderr_blocked,       \* the current process is blocked in a write to
                          \* its full stderr pipe
    streamsClosed,        \* communicate() has closed stdout and stderr
    duration,             \* result of _get_video_duration
    last_progress, last_update_time,
    now,                  \* wall clock, in ticks
    events,               \* calls of the job's progress_callback
    monitor_error,        \* _monitor_progress swallowed an exception
    graceLeft,            \* seconds left of process.wait(timeout=5)
    exc,                  \* exception being raised, "" when none
    total_input_size_mb, total_output_size_mb,
    total_processed,
    overall_percent,      \* run()'s local: <<>> while unbound
    last_overall,         \* overall percent of the last progress_update
    finished,             \* compression_finished emissions
    call,                 \* a function called on its own, and its arguments
    ret                   \* <<>>, or <<what that call returned>>

procVars == <<procState, procExit, started, signals, pipe, written,
              stderr_blocked>>
cvVars == <<process, returncode, streamsClosed, duration, graceLeft, exc>>
monVars == <<last_progress, last_update_time, now, events, monitor_error>>
batchVars == <<total_input_size_mb, total_output_size_mb, total_processed,
               overall_percent, last_overall, finished>>
cfgVars == <<mode, codec, hw_accel, total_files>>
uiVars == <<running, stopCalled, stopReturned, admitted>>
fnVars == <<call, ret>>

vars == <<fnVars, cfgVars, pc, i, uiVars, procVars, cvVars, monVars,
          batchVars>>

Jobs == 1 .. MaxFiles

MaxNow == update_interval + MaxTicks

Init ==
    /\ mode \in Modes
    /\ codec \in Codecs
    /\ hw_accel \in HwAccels
    /\ total_files \in (IF mode = "batch" THEN 1 .. MaxFiles ELSE {1})
    /\ pc = (CASE mode = "single" -> "s_getsize"
               [] mode = "batch" -> "f_loop"
               [] OTHER -> "cv_exists")
    /\ i = 1
    /\ running = TRUE
    /\ stopCalled = FALSE
    /\ stopReturned = FALSE
    /\ admitted = 0
    /\ procState = [j \in Jobs |-> "none"]
    /\ procExit = [j \in Jobs |-> <<>>]
    /\ started = <<>>
    /\ signals = [j \in Jobs |-> {}]
    /\ process = 0
    /\ returncode = <<>>
    /\ pipe = <<>>
    /\ written = 0
    /\ stderr_blocked = FALSE
    /\ streamsClosed = FALSE
    /\ duration = 0
    /\ last_progress = -1
    /\ last_update_time = 0
    /\ now = update_interval
    /\ events = <<>>
    /\ monitor_error = FALSE
    /\ graceLeft = 0
    /\ exc = ""
    /\ total_input_size_mb = 0
    /\ total_output_size_mb = 0
    /\ total_processed = 0
    /\ overall_percent = <<>>
    /\ last_overall = <<>>
    /\ finished = <<>>
    /\ call = [fn |-> "none"]
    /\ ret = <<>>

(* ------------------------ the encoding process ------------------------ *)
Alive(j) == procState[j] = "running"

\* the process writes one telemetry line; it blocks while the pipe is full
ProcWrite ==
    /\ process # 0 /\ Alive(process)
    /\ ~stderr_blocked
    /\ written < MaxLines
    /\ Len(pipe) < PipeCap
    /\ \E l \in Lines : pipe' = Append(pipe, l)
    /\ written' = written + 1
    /\ UNCHANGED <<fnVars, cfgVars, stderr_blocked, pc, i, uiVars, procState,
                   procExit, started, signals, cvVars, monVars, batchVars>>

ExitWith(j, code) ==
    /\ procState' = [procState EXCEPT ![j] = "exited"]
    /\ procExit' = [procExit EXCEPT ![j] = <<code>>]

\* the process writes diagnostics to its stderr until that pipe is full,
\* and blocks in the write that does not fit
ProcBlockStderr ==
    /\ process # 0 /\ Alive(process)
    /\ ~stderr_blocked
    /\ stderr_blocked' = TRUE
    /\ UNCHANGED <<fnVars, cfgVars, pc, i, uiVars, procState, procExit,
                   started, signals, pipe, written, cvVars, monVars,
                   batchVars>>

\* the process exits on its own accord, which it cannot do inside a write
ProcExit ==
    /\ \E j \in Jobs :
          /\ Alive(j)
          /\ ~(j = process /\ stderr_blocked)
          /\ \E code \in OwnExitCodes : ExitWith(j, code)
    /\ UNCHANGED <<fnVars, cfgVars, pc, i, uiVars, started, signals, pipe,
                   written, stderr_blocked, cvVars, monVars, batchVars>>

\* the process dies of a delivered SIGTERM (it may also ignore it)
ProcTermExit ==
    /\ \E j \in Jobs :
          /\ Alive(j) /\ "TERM" \in signals[j]
          /\ ExitWith(j, -15)
          /\ stderr_blocked' = (stderr_blocked /\ j # process)
    /\ UNCHANGED <<fnVars, cfgVars, pc, i, uiVars, started, signals, pipe,
                   written, cvVars, monVars, batchVars>>

\* a delivered SIGKILL cannot be ignored
ProcKillExit ==
    /\ \E j \in Jobs :
          /\ Alive(j) /\ "KILL" \in signals[j]
          /\ ExitWith(j, -9)
          /\ stderr_blocked' = (stderr_blocked /\ j # process)
    /\ UNCHANGED <<fnVars, cfgVars, pc, i, uiVars, started, signals, pipe,
                   written, cvVars, monVars, batchVars>>

\* Popen.poll(): the return code once the process has exited
Poll(j) == IF returncode # <<>> THEN returncode
           ELSE IF procState[j] = "exited" THEN procExit[j] ELSE <<>>

\* Popen.send_signal polls first and signals only a live process
SendSignal(j, sig) ==
    /\ returncode' = Poll(j)
    /\ signals' = IF Alive(j) /\ returncode = <<>>
                  THEN [signals EXCEPT ![j] = @ \cup {sig}]
                  ELSE signals

(* -------------------- VideoCompressor.compress_video ------------------ *)
\* where control goes when compress_video returns / raises
ReturnTo == CASE mode = "single" -> "s_after"
              [] mode = "batch" -> "f_after"
              [] OTHER -> "d_returned"

RaiseTo == CASE mode = "single" -> "s_except"
             [] mode = "batch" -> "f_except"
             [] OTHER -> "d_raised"

\* lines 45-49: the input must exist; process = None
CvExists ==
    /\ pc = "cv_exists"
    /\ \E ex \in BOOLEAN :
          IF ex THEN pc' = "cv_prepare" /\ exc' = ""
          ELSE pc' = RaiseTo /\ exc' = "FileNotFoundError"
    /\ process' = 0
    /\ returncode' = <<>>
    /\ streamsClosed' = FALSE
    /\ pipe' = <<>>
    /\ written' = 0
    /\ events' = <<>>
    /\ monitor_error' = FALSE
    /\ UNCHANGED <<fnVars, cfgVars, stderr_blocked, i, uiVars, procState,
                   procExit, started, signals, duration, graceLeft,
                   last_progress, last_update_time, now, batchVars>>

\* line 51: command = self._prepare_command(...)
CvPrepare ==
    /\ pc = "cv_prepare"
    /\ IF PrepareRaises(codec, hw_accel)
       THEN pc' = "cv_raise" /\ exc' = "ValueError"
       ELSE pc' = "cv_popen" /\ exc' = exc
    /\ UNCHANGED <<fnVars, cfgVars, i, uiVars, procVars, process, returncode,
                   streamsClosed, duration, graceLeft, monVars, batchVars>>

\* lines 54-61: subprocess.Popen(command, ...)
CvPopen ==
    /\ pc = "cv_popen"
    /\ \/ /\ pc' = "cv_raise"
          /\ exc' = "OSError"
          /\ UNCHANGED <<process, procState, started>>
       \/ /\ pc' = "cv_probe"
          /\ process' = i
          /\ procState' = [procState EXCEPT ![i] = "running"]
          /\ started' = Append(started, i)
          /\ exc' = exc
    /\ UNCHANGED <<fnVars, cfgVars, stderr_blocked, i, uiVars, procExit,
                   signals, pipe, written, returncode, streamsClosed,
                   duration, graceLeft, monVars, batchVars>>

\* lines 63-69: the duration probe, then the choice of how to wait
\* (process.returncode is None right after Popen)
CvProbe ==
    /\ pc = "cv_probe"
    /\ \/ /\ pc' = "cv_terminate"
          /\ exc' = "CalledProcessError"
          /\ UNCHANGED <<duration, last_progress, last_update_time>>
       \/ \E d \in Durations :
             /\ duration' = d
             /\ exc' = exc
             /\ IF returncode = <<>>
                THEN IF mode # "direct"
                     THEN /\ pc' = "m_poll"
                          /\ last_progress' = -1
                          /\ last_update_time' = 0
                     ELSE /\ pc' = "cv_communicate"
                          /\ UNCHANGED <<last_progress, last_update_time>>
                ELSE /\ pc' = "cv_after"
                     /\ UNCHANGED <<last_progress, last_update_time>>
    /\ UNCHANGED <<fnVars, cfgVars, i, uiVars, procVars, process, returncode,
                   streamsClosed, graceLeft, now, events, monitor_error,
                   batchVars>>

\* Popen.communicate(): reads both pipes to their end, so it returns once
\* the process has exited, and closes them
Communicate(next) ==
    /\ Poll(process) # <<>>
    /\ returncode' = Poll(process)
    /\ pipe' = <<>>
    /\ stderr_blocked' = FALSE
    /\ streamsClosed' = TRUE
    /\ pc' = next

\* communicate() takes what the process writes to either pipe while it
\* waits
Drain ==
    /\ pc \in {"cv_communicate", "m_communicate"}
    /\ pipe # <<>> \/ stderr_blocked
    /\ pipe' = <<>>
    /\ stderr_blocked' = FALSE
    /\ UNCHANGED <<fnVars, cfgVars, pc, i, uiVars, procState, procExit,
                   started, signals, written, cvVars, monVars, batchVars>>

\* line 69: stdout, stderr = process.communicate()
CvCommunicate ==
    /\ pc = "cv_communicate"
    /\ Communicate("cv_after")
    /\ UNCHANGED <<fnVars, cfgVars, i, uiVars, procState, procExit, started,
                   signals, written, process, duration, graceLeft, exc,
                   monVars, batchVars>>

\* mutant of CvAfter: a return code of None passes for success
CvAfter_NoneIsSuccess ==
    /\ pc = "cv_after"
    /\ pc' = IF process # 0 /\ returncode \notin {<<>>, <<0>>}
             THEN "cv_stderr" ELSE ReturnTo
    /\ UNCHANGED <<fnVars, cfgVars, i, uiVars, procVars, cvVars, monVars,
                   batchVars>>

\* line 71: a return code that is not 0 (None included) is a failure
CvAfter ==
    /\ pc = "cv_after"
    /\ pc' = IF process # 0 /\ returncode # <<0>> THEN "cv_stderr" ELSE ReturnTo
    /\ UNCHANGED <<fnVars, cfgVars, i, uiVars, procVars, cvVars, monVars,
                   batchVars>>

\* lines 72-73: process.stderr.read() raises ValueError on a closed stream
\* and otherwise returns at end of file, i.e. once the process has exited
CvStderr ==
    /\ pc = "cv_stderr"
    /\ IF streamsClosed
       THEN exc' = "ValueError"
       ELSE procState[process] = "exited" /\ exc' = "RuntimeError"
    /\ pc' = "cv_terminate"
    /\ UNCHANGED <<fnVars, cfgVars, i, uiVars, procVars, process, returncode,
                   streamsClosed, duration, graceLeft, monVars, batchVars>>

\* line 72: process.stderr.read() takes what the process writes to its
\* stderr while it waits for the end of the stream
DrainStderr ==
    /\ pc = "cv_stderr"
    /\ ~streamsClosed
    /\ stderr_blocked
    /\ stderr_blocked' = FALSE
    /\ UNCHANGED <<fnVars, cfgVars, pc, i, uiVars, procState, procExit,
                   started, signals, pipe, written, cvVars, monVars,
                   batchVars>>

\* line 78: process.terminate(), entering process.wait(timeout=5)
CvTerminate ==
    /\ pc = "cv_terminate"
    /\ SendSignal(process, "TERM")
    /\ graceLeft' = GracePeriod
    /\ pc' = "cv_wait"
    /\ UNCHANGED <<fnVars, cfgVars, stderr_blocked, i, uiVars, procState,
                   procExit, started, pipe, written, process, streamsClosed,
                   duration, exc, monVars, batchVars>>

\* a second of the grace period passes
GraceTick ==
    /\ pc = "cv_wait"
    /\ Poll(process) = <<>>
    /\ graceLeft > 0
    /\ graceLeft' = graceLeft - 1
    /\ UNCHANGED <<fnVars, cfgVars, pc, i, uiVars, procVars, process,
                   returncode, streamsClosed, duration, exc, monVars,
                   batchVars>>

\* line 80: process.wait(timeout=5) returns, the process has exited
CvWait ==
    /\ pc = "cv_wait"
    /\ Poll(process) # <<>>
    /\ returncode' = Poll(process)
    /\ pc' = "cv_raise"
    /\ UNCHANGED <<fnVars, cfgVars, i, uiVars, procVars, process,
                   streamsClosed, duration, graceLeft, exc, monVars,
                   batchVars>>

\* mutant of CvWaitTimeout: the timeout is not escalated to a kill
CvWaitTimeout_GivesUp ==
    /\ pc = "cv_wait"
    /\ graceLeft = 0
    /\ Poll(process) = <<>>
    /\ pc' = "cv_raise"
    /\ UNCHANGED <<fnVars, cfgVars, i, uiVars, procVars, cvVars, monVars,
                   batchVars>>

\* line 81: subprocess.TimeoutExpired
CvWaitTimeout ==
    /\ pc = "cv_wait"
    /\ graceLeft = 0
    /\ Poll(process) = <<>>
    /\ pc' = "cv_kill"
    /\ UNCHANGED <<fnVars, cfgVars, i, uiVars, procVars, cvVars, monVars,
                   batchVars>>

\* line 82: process.kill()
CvKill ==
    /\ pc = "cv_kill"
    /\ SendSignal(process, "KILL")
    /\ pc' = "cv_wait_kill"
    /\ UNCHANGED <<fnVars, cfgVars, stderr_blocked, i, uiVars, procState,
                   procExit, started, pipe, written, process, streamsClosed,
                   duration, graceLeft, exc, monVars, batchVars>>

\* line 83: process.wait()
CvWaitKill ==
    /\ pc = "cv_wait_kill"
    /\ Poll(process) # <<>>
    /\ returncode' = Poll(process)
    /\ pc' = "cv_raise"
    /\ UNCHANGED <<fnVars, cfgVars, i, uiVars, procVars, process,
                   streamsClosed, duration, graceLeft, exc, monVars,
                   batchVars>>

\* line 84: raise e
CvRaise ==
    /\ pc = "cv_raise"
    /\ pc' = RaiseTo
    /\ UNCHANGED <<fnVars, cfgVars, i, uiVars, procVars, cvVars, monVars,
                   batchVars>>

(* ------------------- VideoCompressor._monitor_progress ---------------- *)
\* the progress_callback handed to compress_video: progress_update.emit
\* (CompressionThread) or the closure of lines 110-112 (folder thread)
Callback(percent, t, isFinal) ==
    /\ events' = Append(events, [percent |-> percent, time |-> t,
                                 final |-> isFinal])
    /\ last_overall' = IF mode = "batch"
                       THEN <<OverallOf(total_processed, percent, total_files)>>
                       ELSE last_overall

\* line 173: while process.poll() is None
MonPoll ==
    /\ pc = "m_poll"
    /\ returncode' = Poll(process)
    /\ pc' = IF Poll(process) = <<>> THEN "m_read" ELSE "m_communicate"
    /\ UNCHANGED <<fnVars, cfgVars, i, uiVars, procVars, process,
                   streamsClosed, duration, graceLeft, exc, monVars,
                   batchVars>>

\* mutant of Throttled: either condition lets the update through
Throttled_Either(progress, current_time) ==
    progress # last_progress
        \/ current_time - last_update_time >= update_interval

\* lines 187-191: the throttle
Throttled(progress, current_time) ==
    progress # last_progress
        /\ current_time - last_update_time >= update_interval

\* lines 175-191: one line is read and handled
MonReadLine ==
    /\ pc = "m_read"
    /\ pipe # <<>>
    /\ pipe' = Tail(pipe)
    /\ LET match == time_pattern_search(Head(pipe)) IN
       IF match = <<>>
       THEN /\ pc' = "m_poll"
            /\ UNCHANGED <<monVars, last_overall>>
       ELSE IF duration = 0
       THEN \* ZeroDivisionError, caught at line 206
            /\ pc' = "cv_after"
            /\ monitor_error' = TRUE
            /\ UNCHANGED <<last_progress, last_update_time, now, events,
                           last_overall>>
       ELSE \E current_time \in now .. MaxNow :
               /\ now' = current_time
               /\ pc' = "m_poll"
               /\ monitor_error' = monitor_error
               /\ LET progress == ProgressOf(match[1], duration) IN
                  IF Throttled(progress, current_time)
                  THEN /\ Callback(progress, current_time, FALSE)
                       /\ last_progress' = progress
                       /\ last_update_time' = current_time
                  ELSE UNCHANGED <<events, last_overall, last_progress,
                                   last_update_time>>
    /\ UNCHANGED <<fnVars, cfgVars, stderr_blocked, i, uiVars, procState,
                   procExit, started, signals, written, cvVars,
                   total_input_size_mb, total_output_size_mb, total_processed,
                   overall_percent, finished>>

\* lines 176-178: readline() returns "" at end of file
MonReadEof ==
    /\ pc = "m_read"
    /\ pipe = <<>>
    /\ procState[process] = "exited"
    /\ pc' = "m_poll"
    /\ UNCHANGED <<fnVars, cfgVars, i, uiVars, procVars, cvVars, monVars,
                   batchVars>>

\* mutant of MonReadError: the read error is not caught in the loop and
\* reaches the handler of compress_video
MonReadError_Propagates ==
    /\ pc = "m_read"
    /\ pc' = "cv_terminate"
    /\ exc' = "OSError"
    /\ UNCHANGED <<fnVars, cfgVars, i, uiVars, procVars, process, returncode,
                   streamsClosed, duration, graceLeft, monVars, batchVars>>

\* lines 192-194: the read fails (ValueError, IOError, BrokenPipeError)
MonReadError ==
    /\ pc = "m_read"
    /\ pc' = "m_communicate"
    /\ UNCHANGED <<fnVars, cfgVars, i, uiVars, procVars, cvVars, monVars,
                   batchVars>>

\* lines 197-200: process.communicate()
MonCommunicate ==
    /\ pc = "m_communicate"
    /\ Communicate("m_final")
    /\ UNCHANGED <<fnVars, cfgVars, i, uiVars, procState, procExit, started,
                   signals, written, process, duration, graceLeft, exc,
                   monVars, batchVars>>

\* lines 203-204: the final update
MonFinal ==
    /\ pc = "m_final"
    /\ pc' = "cv_after"
    /\ IF returncode = <<0>>
       THEN \E t \in now .. MaxNow :
               /\ now' = t
               /\ Callback(100, t, TRUE)
       ELSE UNCHANGED <<now, events, last_overall>>
    /\ UNCHANGED <<fnVars, cfgVars, i, uiVars, procVars, cvVars,
                   last_progress, last_update_time, monitor_error,
                   total_input_size_mb, total_output_size_mb, total_processed,
                   overall_percent, finished>>

(* --------------------------- CompressionThread ------------------------ *)
\* CompressionThread.process: set to None in __init__, assigned nowhere else
self_process == 0

OutSizes == {0, 1}

Finished(ok, input, output) ==
    finished' = Append(finished, [ok |-> ok, input |-> input,
                                  output |-> output])

\* compress_video's frame is left: its locals and pipe objects are gone
FrameGone ==
    /\ process' = 0
    /\ returncode' = <<>>
    /\ streamsClosed' = FALSE
    /\ duration' = 0
    /\ graceLeft' = 0
    /\ last_progress' = -1
    /\ last_update_time' = 0
    /\ events' = <<>>
    /\ monitor_error' = FALSE
    /\ pipe' = <<>>
    /\ written' = 0
    /\ stderr_blocked' = FALSE

\* lines 29-30: os.path.getsize(self.input_file)
SGetsize ==
    /\ pc = "s_getsize"
    /\ \/ /\ pc' = "s_except"
          /\ exc' = "OSError"
          /\ UNCHANGED total_input_size_mb
       \/ /\ total_input_size_mb' = FileSize(i)
          /\ pc' = "cv_exists"
          /\ exc' = exc
    /\ UNCHANGED <<fnVars, cfgVars, i, uiVars, procVars, process, returncode,
                   streamsClosed, duration, graceLeft, monVars,
                   total_output_size_mb, total_processed, overall_percent,
                   last_overall, finished>>

\* lines 47-54 and 58-64: terminate the process the thread knows of
StopProcess ==
    IF self_process # 0 /\ Alive(self_process)
    THEN signals' = [signals EXCEPT ![self_process] = @ \cup {"TERM"}]
    ELSE signals' = signals

\* lines 39-43 and the finally clause
SAfter ==
    /\ pc = "s_after"
    /\ \E out \in OutSizes :
          /\ total_output_size_mb' = out
          /\ Finished(TRUE, total_input_size_mb, out)
    /\ StopProcess
    /\ FrameGone
    /\ pc' = "done"
    /\ UNCHANGED <<fnVars, cfgVars, i, uiVars, procState, procExit, started,
                   exc, now, total_input_size_mb, total_processed,
                   overall_percent, last_overall>>

\* lines 44-46 and the finally clause
SExcept ==
    /\ pc = "s_except"
    /\ Finished(FALSE, 0, 0)
    /\ StopProcess
    /\ FrameGone
    /\ pc' = "done"
    /\ UNCHANGED <<fnVars, cfgVars, i, uiVars, procState, procExit, started,
                   exc, now, total_input_size_mb, total_output_size_mb,
                   total_processed, overall_percent, last_overall>>

\* lines 56-65: CompressionThread.stop, called while the thread runs
StopSingle ==
    /\ mode = "single"
    /\ pc # "done"
    /\ ~stopCalled
    /\ stopCalled' = TRUE
    /\ StopProcess
    /\ UNCHANGED <<fnVars, cfgVars, stderr_blocked, pc, i, running,
                   stopReturned, admitted, procState, procExit, started, pipe,
                   written, cvVars, monVars, batchVars>>

\* line 65: self.wait() returns once run() has finished
StopSingleReturn ==
    /\ mode = "single"
    /\ stopCalled /\ ~stopReturned
    /\ pc = "done"
    /\ stopReturned' = TRUE
    /\ UNCHANGED <<fnVars, cfgVars, pc, i, running, stopCalled, admitted,
                   procVars, cvVars, monVars, batchVars>>

(* ------------------------ FolderCompressionThread --------------------- *)
\* mutant of FLoop: the cancellation flag is not looked at
FLoop_IgnoresFlag ==
    /\ pc = "f_loop"
    /\ pc' = IF i > total_files THEN "f_final" ELSE "f_getsize"
    /\ UNCHANGED <<fnVars, cfgVars, i, uiVars, procVars, cvVars, monVars,
                   batchVars>>

\* lines 94-96: the next plan entry, and the cancellation check
FLoop ==
    /\ pc = "f_loop"
    /\ pc' = IF i > total_files \/ ~running THEN "f_final" ELSE "f_getsize"
    /\ UNCHANGED <<fnVars, cfgVars, i, uiVars, procVars, cvVars, monVars,
                   batchVars>>

\* lines 98-107: the input size is added before the job runs
FGetsize ==
    /\ pc = "f_getsize"
    /\ \/ /\ pc' = "f_except"
          /\ exc' = "OSError"
          /\ UNCHANGED total_input_size_mb
       \/ /\ total_input_size_mb' = total_input_size_mb + FileSize(i)
          /\ pc' = "cv_exists"
          /\ exc' = exc
    /\ UNCHANGED <<fnVars, cfgVars, i, uiVars, procVars, process, returncode,
                   streamsClosed, duration, graceLeft, monVars,
                   total_output_size_mb, total_processed, overall_percent,
                   last_overall, finished>>

\* line 131: overall_percent = int(total_processed / total_files * 100)
BoundaryOf(processed, files) ==
    FTrunc(FMulInt(FDivInt(FInt(processed), files), 100))

\* lines 124-132: the job is counted and the item boundary reported
FAfter ==
    /\ pc = "f_after"
    /\ \E out \in OutSizes :
          total_output_size_mb' = total_output_size_mb + out
    /\ total_processed' = total_processed + 1
    /\ overall_percent' = <<BoundaryOf(total_processed + 1, total_files)>>
    /\ last_overall' = overall_percent'
    /\ i' = i + 1
    /\ FrameGone
    /\ pc' = "f_loop"
    /\ UNCHANGED <<fnVars, cfgVars, uiVars, procState, procExit, started,
                   signals, exc, now, total_input_size_mb, finished>>

\* mutant of FFinal: the success notification is emitted before the final
\* update is
FFinal_NotifiesFirst ==
    /\ pc = "f_final"
    /\ Finished(TRUE, total_input_size_mb, total_output_size_mb)
    /\ IF overall_percent = <<>>
       THEN /\ pc' = "f_except"
            /\ exc' = "UnboundLocalError"
            /\ UNCHANGED last_overall
       ELSE /\ pc' = "done"
            /\ exc' = exc
            /\ last_overall' = overall_percent
    /\ UNCHANGED <<fnVars, cfgVars, i, uiVars, procVars, process, returncode,
                   streamsClosed, duration, graceLeft, monVars,
                   total_input_size_mb, total_output_size_mb, total_processed,
                   overall_percent>>

\* lines 135-138: the final update and the success notification;
\* overall_percent is unbound when no job has completed
FFinal ==
    /\ pc = "f_final"
    /\ IF overall_percent = <<>>
       THEN /\ pc' = "f_except"
            /\ exc' = "UnboundLocalError"
            /\ UNCHANGED <<last_overall, finished>>
       ELSE /\ pc' = "done"
            /\ exc' = exc
            /\ last_overall' = overall_percent
            /\ Finished(TRUE, total_input_size_mb, total_output_size_mb)
    /\ UNCHANGED <<fnVars, cfgVars, i, uiVars, procVars, process, returncode,
                   streamsClosed, duration, graceLeft, monVars,
                   total_input_size_mb, total_output_size_mb, total_processed,
                   overall_percent>>

\* mutant of FExcept: the failed job is skipped and the batch goes on
FExcept_SkipsJob ==
    /\ pc = "f_except"
    /\ i' = i + 1
    /\ FrameGone
    /\ pc' = "f_loop"
    /\ UNCHANGED <<fnVars, cfgVars, stderr_blocked, uiVars, procState,
                   procExit, started, signals, exc, now, batchVars>>

\* lines 139-141: the failure notification carries 0, 0
FExcept ==
    /\ pc = "f_except"
    /\ Finished(FALSE, 0, 0)
    /\ FrameGone
    /\ pc' = "done"
    /\ UNCHANGED <<fnVars, cfgVars, i, uiVars, procState, procExit, started,
                   signals, exc, now, total_input_size_mb,
                   total_output_size_mb, total_processed, overall_percent,
                   last_overall>>

\* lines 143-145: FolderCompressionThread.stop
FolderStop ==
    /\ mode = "batch"
    /\ pc # "done"
    /\ ~stopCalled
    /\ running' = FALSE
    /\ stopCalled' = TRUE
    /\ stopReturned' = TRUE
    /\ admitted' = IF pc = "f_loop" THEN i - 1 ELSE i
    /\ UNCHANGED <<fnVars, cfgVars, pc, i, procVars, cvVars, monVars,
                   batchVars>>

(* --------------------------- specification ---------------------------- *)
Next ==
    \/ ProcWrite \/ ProcBlockStderr \/ ProcExit \/ ProcTermExit
    \/ ProcKillExit
    \/ CvExists \/ CvPrepare \/ CvPopen \/ CvProbe \/ Drain \/ CvCommunicate
    \/ CvAfter \/ CvStderr \/ DrainStderr \/ CvTerminate \/ GraceTick \/ CvWait
    \/ CvWaitTimeout \/ CvKill \/ CvWaitKill \/ CvRaise
    \/ MonPoll \/ MonReadLine \/ MonReadEof \/ MonReadError
    \/ MonCommunicate \/ MonFinal
    \/ SGetsize \/ SAfter \/ SExcept \/ StopSingle \/ StopSingleReturn
    \/ FLoop \/ FGetsize \/ FAfter \/ FFinal \/ FExcept \/ FolderStop

Spec == Init /\ [][Next]_vars

(* -------------------- functions called on their own ------------------- *)
\* values of out_time_ms and total durations in seconds
Microseconds ==
    {0, 10000, 290000, 570000, 580000, 1000000, 1130000, 3000000, 7000000}
Seconds == {1, 2, 3, 7}

ProgressCalls ==
    [fn : {"progress"}, current_ms : Microseconds, total_duration : Seconds]

\* the batch's progress_callback: jobs completed, the running job's
\* percent, jobs of the plan
OverallCalls ==
    { c \in [fn : {"overall"}, total_processed : 0 .. MaxFiles - 1,
             percent : 0 .. 100, total_files : 1 .. MaxFiles] :
        c.total_processed < c.total_files }

\* the percent at an item boundary: jobs completed, jobs of the plan
BoundaryCalls ==
    { c \in [fn : {"boundary"}, total_processed : 1 .. MaxFiles,
             total_files : 1 .. MaxFiles] :
        c.total_processed <= c.total_files }

\* codec strings, CRF values of the slider and accelerators
AllCodecs == {"h264", "h265", "vp9", "av1", "xvid"}
Qualities == 0 .. 51
AllHwAccels == {"none", "nvidia", "amd", "intel"}

PrepareCalls ==
    [fn : {"prepare"}, codec : AllCodecs, crf : Qualities,
     hardware_acceleration : AllHwAccels]

\* file sizes in bytes
FileBytes == {0, 100000, 1000000}
\* outcomes of the bitrate and of the duration probe
BitrateProbes ==
    {[kind |-> "raise"], [kind |-> "text"], [kind |-> "int", value |-> 0],
     [kind |-> "int", value |-> 800000]}
DurationProbes ==
    {[kind |-> "raise"], [kind |-> "text"], [kind |-> "int", value |-> 0],
     [kind |-> "int", value |-> 7]}

EstimateCalls ==
    { c \in [fn : {"estimate"}, exists : BOOLEAN, getsize : FileBytes,
             codec : AllCodecs, crf : Qualities,
             bprobe : BitrateProbes, dprobe : DurationProbes] :
        ~c.exists => /\ c.getsize = 0 /\ c.bprobe.kind = "text"
                     /\ c.dprobe.kind = "text" }

\* overall percents handed to update_eta and the time since the start of
\* the run, in ticks
Percents == 0 .. 100
ElapsedTicks == {0, 1, 3, 10, 47, 240, 1001, 14400, 57601}

EtaCalls == [fn : {"eta"}, progress : Percents, elapsed : ElapsedTicks]

Calls == ProgressCalls \cup OverallCalls \cup BoundaryCalls
         \cup PrepareCalls \cup EstimateCalls \cup EtaCalls

\* no thread runs: one function is called, once
FnInit ==
    /\ call \in Calls
    /\ ret = <<>>
    /\ mode = "direct"
    /\ codec = "h264"
    /\ hw_accel = "none"
    /\ total_files = 1
    /\ pc = "pure"
    /\ i = 1
    /\ running = TRUE
    /\ stopCalled = FALSE
    /\ stopReturned = FALSE
    /\ admitted = 0
    /\ procState = [j \in Jobs |-> "none"]
    /\ procExit = [j \in Jobs |-> <<>>]
    /\ started = <<>>
    /\ signals = [j \in Jobs |-> {}]
    /\ process = 0
    /\ returncode = <<>>
    /\ pipe = <<>>
    /\ written = 0
    /\ stderr_blocked = FALSE
    /\ streamsClosed = FALSE
    /\ duration = 0
    /\ last_progress = -1
    /\ last_update_time = 0
    /\ now = update_interval
    /\ events = <<>>
    /\ monitor_error = FALSE
    /\ graceLeft = 0
    /\ exc = ""
    /\ total_input_size_mb = 0
    /\ total_output_size_mb = 0
    /\ total_processed = 0
    /\ overall_percent = <<>>
    /\ last_overall = <<>>
    /\ finished = <<>>

threadVars ==
    <<cfgVars, pc, i, uiVars, procVars, cvVars, monVars, batchVars>>

\* _monitor_progress, lines 182-184: the percent of one matched line
ComputeProgress ==
    /\ call.fn = "progress" /\ ret = <<>>
    /\ ret' = <<ProgressOf(call.current_ms, call.total_duration)>>
    /\ UNCHANGED <<call, threadVars>>

\* FolderCompressionThread.run, progress_callback: the overall percent
ComputeOverall ==
    /\ call.fn = "overall" /\ ret = <<>>
    /\ ret' = <<OverallOf(call.total_processed, call.percent,
                          call.total_files)>>
    /\ UNCHANGED <<call, threadVars>>

\* FolderCompressionThread.run, line 131: the percent after a job
ComputeBoundary ==
    /\ call.fn = "boundary" /\ ret = <<>>
    /\ ret' = <<BoundaryOf(call.total_processed, call.total_files)>>
    /\ UNCHANGED <<call, threadVars>>

\* VideoCompressor._prepare_command
PrepareCommand ==
    /\ call.fn = "prepare" /\ ret = <<>>
    /\ ret' = <<_prepare_command("in.mp4", "out.mp4", call.codec, call.crf,
                                 call.hardware_acceleration)>>
    /\ UNCHANGED <<call, threadVars>>

\* VideoCompressor.estimate_output_size
EstimateOutputSize ==
    /\ call.fn = "estimate" /\ ret = <<>>
    /\ ret' = <<estimate_output_size(call.exists, call.getsize, call.codec,
                                     call.crf, call.bprobe, call.dprobe)>>
    /\ UNCHANGED <<call, threadVars>>

\* MainWindow.update_eta
UpdateEta ==
    /\ call.fn = "eta" /\ ret = <<>>
    /\ ret' = <<update_eta(call.progress, ElapsedOf(call.elapsed))>>
    /\ UNCHANGED <<call, threadVars>>

FnNext ==
    \/ ComputeProgress \/ ComputeOverall \/ ComputeBoundary
    \/ PrepareCommand \/ EstimateOutputSize \/ UpdateEta

SpecFn == FnInit /\ [][FnNext]_vars

(* ------------------------------ claims -------------------------------- *)
\* the worker is inside compress_video
InCompressVideo ==
    pc \in {"cv_exists", "cv_prepare", "cv_popen", "cv_probe",
            "cv_communicate", "cv_after", "cv_stderr", "cv_terminate",
            "cv_wait", "cv_kill", "cv_wait_kill", "cv_raise",
            "m_poll", "m_read", "m_communicate", "m_final"}

\* compress_video has just returned / raised, its frame still visible
JustReturned == pc \in {"s_after", "f_after", "d_returned"}
JustRaised == pc \in {"s_except", "f_except", "d_raised"}

\* the job's process was spawned and handed to _monitor_progress
Monitored == process # 0 /\ mode # "direct" /\ exc # "CalledProcessError"

\* C1: no process leak.  Whenever the worker is outside compress_video, and
\* already when compress_video is about to raise, every spawned process has
\* exited; SIGKILL is sent only after SIGTERM and only once the whole grace
\* period has passed.
C1_NoProcessLeak ==
    /\ ~InCompressVideo => \A j \in Jobs : ~Alive(j)
    /\ (pc = "cv_raise" /\ process # 0) => ~Alive(process)
    /\ \A j \in Jobs : "KILL" \in signals[j] => "TERM" \in signals[j]
    /\ pc \in {"cv_kill", "cv_wait_kill"} =>
          graceLeft = 0 /\ "TERM" \in signals[process]

\* C1 witness: a process ignored SIGTERM for the whole grace period, was
\* killed, and compress_video has raised
C1_Witness ==
    /\ JustRaised
    /\ process # 0
    /\ signals[process] = {"TERM", "KILL"}
    /\ procExit[process] = <<-9>>

\* C2: CompressionThread.stop, called while the job's process runs, sends
\* that process a termination request
C2_StopTerminatesProcess ==
    [][(mode = "single" /\ ~stopCalled /\ stopCalled'
            /\ process # 0 /\ Alive(process))
          => "TERM" \in signals'[process]]_vars

\* C3 as claimed: once the flag is set no process is started any more
C3_NoStartAfterFlag ==
    [][~running => started' = started]_vars

\* C3 as amended: after the flag is set no job is started except the one
\* that had already passed its cancellation check, and no process of a batch
\* is signalled unless its own job has failed
C3_OnlyAdmittedJobStarts ==
    mode = "batch" =>
       /\ stopCalled =>
             \A k \in 1 .. Len(started) : started[k] <= admitted
       /\ \A j \in Jobs : signals[j] # {} => exc # ""

\* C3 witness: the flag was set while job 1 ran; job 1 completed untouched
\* and job 2 was not started
C3_Witness ==
    /\ mode = "batch" /\ total_files = 2
    /\ stopCalled /\ admitted = 1
    /\ pc = "done"
    /\ total_processed = 1
    /\ started = <<1>>
    /\ procExit[1] = <<0>>
    /\ signals[1] = {}

\* C4: at most one process is live, jobs are started in plan order without
\* gaps or repeats, and every job but the last started has exited
C4_SequentialInPlanOrder ==
    /\ Cardinality({j \in Jobs : Alive(j)}) <= 1
    /\ \A k \in 1 .. Len(started) : started[k] = k
    /\ \A k \in 1 .. Len(started) - 1 : procState[started[k]] = "exited"

\* C4 witness: the second job's process runs
C4_Witness ==
    /\ mode = "batch"
    /\ started = <<1, 2>>
    /\ Alive(2)

\* C5: once a job has failed the batch enters no other job, starts no
\* process after it, and ends with one failure notification
C5_FailureIsFatal ==
    (mode = "batch" /\ exc # "") =>
       /\ pc \in {"cv_raise", "cv_terminate", "cv_wait", "cv_kill",
                  "cv_wait_kill", "f_except", "done"}
       /\ \A k \in 1 .. Len(started) : started[k] <= i
       /\ pc = "done" => Len(finished) = 1 /\ ~finished[1].ok

\* C5 witness: job 1 of 2 failed on a non-zero exit and the batch ended
C5_Witness ==
    /\ mode = "batch" /\ total_files = 2
    /\ pc = "done"
    /\ i = 1
    /\ procExit[1] = <<1>>
    /\ exc = "ValueError"
    /\ started = <<1>>
    /\ ~finished[1].ok

RECURSIVE SumSizes(_)
\* the input sizes of the first n plan entries together
SumSizes(n) == IF n = 0 THEN 0 ELSE FileSize(n) + SumSizes(n - 1)

\* C6: the completion notification of a batch, success or failure, carries
\* the input and output totals of the jobs completed so far
C6_NotificationCarriesTotals ==
    (mode = "batch" /\ pc = "done" /\ finished # <<>>) =>
       /\ finished[1].input = SumSizes(total_processed)
       /\ finished[1].output = total_output_size_mb

\* C7: a monitored job whose process exited with code 0 has received a
\* final event of 100, after all its other events
C7_Final100 ==
    ((JustReturned \/ JustRaised) /\ Monitored
         /\ procExit[process] = <<0>>) =>
       /\ events # <<>>
       /\ Last(events).percent = 100
       /\ Last(events).final

\* C8: the percents delivered to a job's callback never decrease, and after
\* a successful exit the last one is 100
C8_JobProgressMonotone ==
    /\ \A k \in 1 .. Len(events) - 1 :
          events[k].percent <= events[k + 1].percent
    /\ ((JustReturned \/ JustRaised) /\ Monitored
            /\ procExit[process] = <<0>>) =>
          (events # <<>> /\ Last(events).percent = 100)

\* C9: the overall percents emitted during a batch never decrease
C9_BatchProgressMonotone ==
    [][(mode = "batch" /\ last_overall # <<>>) =>
          last_overall'[1] >= last_overall[1]]_vars

\* C10 as claimed: every emitted percent differs from the one before and
\* comes at least update_interval after it
C10_EveryEventThrottled ==
    \A k \in 2 .. Len(events) :
       /\ events[k].percent # events[k - 1].percent
       /\ events[k].time - events[k - 1].time >= update_interval

\* C10 as amended: every percent emitted for a telemetry line differs from
\* the one before and comes at least update_interval after it; the final
\* 100 event is not throttled
C10_LineEventsThrottled ==
    \A k \in 2 .. Len(events) :
       ~events[k].final =>
          /\ events[k].percent # events[k - 1].percent
          /\ events[k].time - events[k - 1].time >= update_interval

\* C10 witness: the second telemetry line of a job was let through by the
\* throttle, exactly update_interval after the first
C10_Witness ==
    /\ Len(events) = 2
    /\ ~events[2].final
    /\ events[2].time = events[1].time + update_interval
    /\ written = 2


(* ------------------------------- C11 ---------------------------------- *)
\* floor(n / k) for non-negative n and positive k, in exact arithmetic
ExactProgress(n, d) == Min(100, n \div (10000 * d))

\* C11: for every line out_time_ms=<n> and total duration d > 0 the
\* candidate percent is min(100, floor(n / 1000000 / d * 100)), and it is
\* an integer in 0..100
C11_PercentIsFloor ==
    (call.fn = "progress" /\ ret # <<>>) =>
        /\ ret[1] = ExactProgress(call.current_ms, call.total_duration)
        /\ ret[1] \in 0 .. 100

(* ------------------------------- C12 ---------------------------------- *)
\* C12: every overall percent emitted during a batch equals
\* floor((completedCount + currentJobPercent / 100) / totalCount * 100),
\* and at each item boundary floor(completedCount / totalCount * 100)
C12_AggregateIsFloor ==
    /\ (call.fn = "overall" /\ ret # <<>>) =>
          ret[1] = (call.total_processed * 100 + call.percent)
                       \div call.total_files
    /\ (call.fn = "boundary" /\ ret # <<>>) =>
          ret[1] = (call.total_processed * 100) \div call.total_files

(* ------------------------------- C13 ---------------------------------- *)
\* _prepare_command was called and has returned a command
Built == call.fn = "prepare" /\ ret # <<>> /\ ret[1].raised = ""

\* the arguments that follow the flag in the command
ValuesOf(cmd, flag) ==
    { cmd[k + 1] : k \in { j \in 1 .. Len(cmd) - 1 : cmd[j] = flag } }

\* round(q * 1.23) for an integer q >= 0
RoundedVp9(q) == (q * 123 + 50) \div 100

\* C13: for codec vp9 and every quality q in 0..51 the quality flag of the
\* built command is min(63, round(q * 1.23))
C13_Vp9QualityIsRounded ==
    (Built /\ call.codec = "vp9" /\ call.hardware_acceleration = "none") =>
        ValuesOf(ret[1].value, "-crf")
            = {ToString(Min(63, RoundedVp9(call.crf)))}

(* ------------------------------- C14 ---------------------------------- *)
\* C14: for codec vp9 or av1 and every accelerator the built command is
\* the one built without accelerator: the software encoder with the
\* codec's quality flag
C14_SoftwareFallback ==
    (call.fn = "prepare" /\ ret # <<>> /\ call.codec \in {"vp9", "av1"}) =>
        ret[1] = _prepare_command("in.mp4", "out.mp4", call.codec, call.crf,
                                  "none")

(* ------------------------------- C15 ---------------------------------- *)
\* the positions of the argument in the command
Positions(cmd, arg) == { k \in 1 .. Len(cmd) : cmd[k] = arg }

\* C15: for h264 and h265, every quality and every accelerator, a command
\* is built that selects exactly one video encoder and carries -crf with
\* the unmodified quality; every built command copies the audio stream,
\* requests the progress stream on stdout, overwrites without asking and
\* ends with the output path
C15_CrfAndFixedFlags ==
    /\ (call.fn = "prepare" /\ ret # <<>>
           /\ call.codec \in {"h264", "h265"}) =>
          /\ ret[1].raised = ""
          /\ Cardinality(Positions(ret[1].value, "-c:v")) = 1
          /\ Cardinality(Positions(ret[1].value, "-crf")) = 1
          /\ ValuesOf(ret[1].value, "-crf") = {ToString(call.crf)}
    /\ Built =>
          /\ "copy" \in ValuesOf(ret[1].value, "-c:a")
          /\ "-" \in ValuesOf(ret[1].value, "-progress")
          /\ Positions(ret[1].value, "-y") # {}
          /\ Last(ret[1].value) = "out.mp4"

\* C15 witness: a command was built for h265 on the amd accelerator with
\* the largest quality value
C15_Witness ==
    /\ Built
    /\ call.codec = "h265"
    /\ call.hardware_acceleration = "amd"
    /\ call.crf = 51
    /\ ValuesOf(ret[1].value, "-c:v") = {"hevc_amf"}

(* ------------------------------- C16 ---------------------------------- *)
\* C16: building a command fails exactly for the codecs outside h264,
\* h265, vp9 and av1, whatever the accelerator
C16_UnsupportedCodecRaises ==
    (call.fn = "prepare" /\ ret # <<>>) =>
        (ret[1].raised # ""
            <=> call.codec \notin {"h264", "h265", "vp9", "av1"})

(* ------------------------------- C17 ---------------------------------- *)
\* C17: whenever the job's process has exited on its own with a non-zero
\* code (and the duration probe did not fail first), compress_video does
\* not return: it raises the RuntimeError of line 73, which carries the
\* text read from the process's standard error
C17_NonZeroExitRaisesStderr ==
    ((JustReturned \/ JustRaised) /\ process # 0
         /\ procExit[process] = <<1>> /\ exc # "CalledProcessError") =>
        (JustRaised /\ exc = "RuntimeError")

(* ------------------------------- C18 ---------------------------------- *)
\* the worker is blocked in stdout.readline(): no line is buffered and the
\* stream is not at its end
ReadlineBlocked ==
    pc = "m_read" /\ pipe = <<>> /\ process # 0 /\ Alive(process)

\* C18: while a job is monitored both output streams are consumed: there
\* is no reachable state where the process is blocked writing to a full
\* pipe while the worker is blocked reading the other pipe
C18_NoPipeDeadlock == ~(ReadlineBlocked /\ stderr_blocked)

(* ------------------------------- C19 ---------------------------------- *)
\* the worker is inside _monitor_progress
InMonitor == pc \in {"m_poll", "m_read", "m_communicate", "m_final"}

\* C19: _monitor_progress never raises: it ends by returning to
\* compress_video (line 71) with no exception in flight; a line without a
\* well-formed out_time_ms=<integer> marker produces no event and the loop
\* goes on; and when the monitor ended without a swallowed exception (the
\* loop ended by a read error, or by the process's exit after the end of
\* the stream), compress_video returns if the process's exit status is 0
\* and raises otherwise
C19_MonitorRecoversLocally ==
    /\ [][InMonitor => /\ pc' \in {"m_poll", "m_read", "m_communicate",
                                   "m_final", "cv_after"}
                       /\ exc' = ""]_vars
    /\ [][(pc = "m_read" /\ pipe # <<>> /\ pipe' = Tail(pipe)
              /\ time_pattern_search(Head(pipe)) = <<>>)
             => (events' = events /\ pc' = "m_poll")]_vars
    /\ []((Monitored /\ ~monitor_error /\ (JustReturned \/ JustRaised)) =>
             /\ procExit[process] # <<>>
             /\ JustReturned <=> procExit[process] = <<0>>)

\* C19 witness: a read error has ended the loop while the process was
\* running and had written a line nobody read; the worker waits in
\* communicate() with no exception in flight
C19_Witness ==
    /\ pc = "m_communicate"
    /\ returncode = <<>>
    /\ Alive(process)
    /\ pipe # <<>>
    /\ exc = ""

(* ------------------------------- C20 ---------------------------------- *)
\* estimate_output_size was called and is done
Estimated == call.fn = "estimate" /\ ret # <<>>

\* the probe raised, or its output is no number or no positive number
ProbeFailed(probe) == probe.kind # "int" \/ probe.value <= 0

\* the bitrate that _get_video_bitrate reports is positive: the probed
\* one, or file size in bits / duration when the probe's output is no
\* number and the duration is positive
BitrateKnown ==
    \/ call.bprobe.kind = "int" /\ call.bprobe.value > 0
    \/ /\ call.bprobe.kind = "text"
       /\ ~ProbeFailed(call.dprobe)
       /\ (call.getsize * 8) \div call.dprobe.value > 0

\* the estimate is never an error, is 0 exactly for a missing file and at
\* least 0.1 MB otherwise
EstimateIsFloored ==
    /\ ret[1].raised = ""
    /\ ret[1].value.m = <<>> <=> ~call.exists
    /\ call.exists => ~FLess(ret[1].value, FDivInt(FInt(1), 10))

\* the estimate is the ratio heuristic
EstimateIsHeuristic ==
    FEq(ret[1].value, EstimateByRatio(call.codec, call.crf, call.getsize))

\* C20 as stated: estimate_output_size never raises; a probe error, an
\* unparsable or non-positive bitrate or duration fall back to the ratio
\* heuristic inputSizeMB * min(1.0, reductionFactor * qualityFactor); the
\* result is 0 iff the input file does not exist and otherwise >= 0.1 MB
C20_FallbackOnEveryProbeFailure ==
    Estimated =>
        /\ EstimateIsFloored
        /\ (call.exists
              /\ (ProbeFailed(call.bprobe) \/ ProbeFailed(call.dprobe)))
           => EstimateIsHeuristic

\* C20 amended: as above, but a bitrate probe without a number falls back
\* to the heuristic only if file size in bits / duration gives no positive
\* bitrate either
C20_FallbackWithoutBitrate ==
    Estimated =>
        /\ EstimateIsFloored
        /\ (call.exists /\ (~BitrateKnown \/ ProbeFailed(call.dprobe)))
           => EstimateIsHeuristic

\* C20 witness: the duration probe raised for a file of 100000 bytes whose
\* bitrate is known, and the estimate is the heuristic's, floored to 0.1
C20_Witness ==
    /\ Estimated
    /\ call.exists
    /\ call.getsize = 100000
    /\ call.bprobe.kind = "int" /\ call.bprobe.value > 0
    /\ call.dprobe.kind = "raise"
    /\ FEq(ret[1].value, FDivInt(FInt(1), 10))

(* ------------------------------- C21 ---------------------------------- *)
\* the estimate for the same file, codec and probe outcomes at quality q
EstimateAt(q) ==
    estimate_output_size(call.exists, call.getsize, call.codec, q,
                         call.bprobe, call.dprobe)

\* C21: the size estimate is monotone in quality.  For every codec, file
\* size and pair of probe outcomes, the estimate at quality q + 1 is not
\* greater than the estimate at quality q, for every q in 0 .. 50; as <= is
\* transitive this orders the estimates of all q1 <= q2 in 0 .. 51.  The
\* probe outcomes decide whether the bitrate-based or the ratio-based path
\* is taken, so both paths are covered.
C21_MonotoneInQuality ==
    (Estimated /\ call.crf < 51) =>
       /\ ret[1].raised = ""
       /\ EstimateAt(call.crf + 1).raised = ""
       /\ ~FLess(ret[1].value, EstimateAt(call.crf + 1).value)

\* C21 witness: on the bitrate-based path the estimate at quality 23 is
\* above the floor of 0.1 MB and strictly greater than the one at 24
C21_Witness ==
    /\ Estimated
    /\ call.exists /\ call.crf = 23
    /\ call.bprobe.kind = "int" /\ call.bprobe.value > 0
    /\ call.dprobe.kind = "int" /\ call.dprobe.value > 0
    /\ FLess(FDivInt(FInt(1), 10), ret[1].value)
    /\ FLess(EstimateAt(24).value, ret[1].value)

(* ------------------------------- C22 ---------------------------------- *)
\* C22: a duration probe whose output is no positive number is an error,
\* so no job is monitored with a total duration that is not positive
C22_MonitoredDurationPositive ==
    InMonitor => duration > 0

(* ------------------------------- C23 ---------------------------------- *)
\* what the label shows for e * (100 - p) / p seconds, e being ticks ticks:
\* the exact quotient, cut to whole seconds
ExactEta(p, ticks) ==
    time_str((ticks * (100 - p)) \div (TicksPerSecond * p),
             ticks * (100 - p) < 60 * TicksPerSecond * p,
             ticks * (100 - p) < 3600 * TicksPerSecond * p)

\* C23: on a progress update with overall percent p and elapsed time e the
\* ETA label is blank when p = 0 and otherwise shows e * (100 - p) / p, in
\* whole seconds; at p = 100 it shows 0 seconds
C23_EtaRule ==
    (call.fn = "eta" /\ ret # <<>>) =>
       /\ call.progress = 0 => ret[1] = <<"--:--">>
       /\ call.progress > 0 => ret[1] = ExactEta(call.progress, call.elapsed)
       /\ call.progress = 100 => ret[1] = <<0, "sec">>

\* C23 witness: an update at a percent strictly between 0 and 100 for which
\* e * (100 - p) / p is no whole number of seconds and is shown in minutes
C23_Witness ==
    /\ call.fn = "eta" /\ ret # <<>>
    /\ call.progress \in 1 .. 99
    /\ (call.elapsed * (100 - call.progress))
          % (TicksPerSecond * call.progress) # 0
    /\ Len(ret[1]) = 4 /\ ret[1][2] = "min"

(* ------------------------------- C24 ---------------------------------- *)
\* C24: success if and only if exit code zero.  When compress_video has
\* returned or raised after spawning a process, that process has exited,
\* and compress_video has returned exactly when its exit status is 0
C24_SuccessIffExitZero ==
    ((JustReturned \/ JustRaised) /\ process # 0) =>
       /\ procExit[process] # <<>>
       /\ JustReturned <=> procExit[process] = <<0>>

(* ------------------------------- C25 ---------------------------------- *)
\* C25: exactly one completion notification.  A run of CompressionThread or
\* of FolderCompressionThread never emits compression_finished a second
\* time; when it has ended, on whatever path, it has emitted it once, and
\* not before its end: after the notification the thread emits no progress
\* update and does nothing else
C25_ExactlyOneNotification ==
    /\ [](mode # "direct" =>
             /\ Len(finished) <= 1
             /\ pc = "done" <=> Len(finished) = 1)
    /\ [][finished # <<>> =>
             UNCHANGED <<pc, finished, events, last_overall>>]_vars

\* C25 witness: a batch cancelled before its first job has ended, with one
\* notification emitted from the exception handler
C25_Witness ==
    /\ mode = "batch" /\ pc = "done"
    /\ stopCalled /\ started = <<>>
    /\ exc = "UnboundLocalError"
    /\ Len(finished) = 1

(* ------------------------------- C26 ---------------------------------- *)
\* the loop of lines 94-96 has been left by its break: the cancellation
\* flag was seen before the start of job i, with no job having failed
CancelObserved ==
    /\ mode = "batch"
    /\ pc \in {"f_final", "f_except", "done"}
    /\ ~running /\ i <= total_files
    /\ exc \in {"", "UnboundLocalError"}

\* C26: cancellation is not an error.  Once the flag has been seen before
\* a job start, at any position of the plan, no further process is started,
\* the completed counter is the number of jobs whose process exited with
\* status 0 and does not exceed the plan length, and the batch ends with a
\* success notification carrying the totals of the completed jobs
C26_CancellationIsNotAnError ==
    CancelObserved =>
       /\ \A k \in 1 .. Len(started) : started[k] < i
       /\ total_processed = Cardinality({j \in Jobs : procExit[j] = <<0>>})
       /\ total_processed <= total_files
       /\ pc # "f_except"
       /\ pc = "done" =>
             /\ Len(finished) = 1
             /\ finished[1].ok
             /\ finished[1].input = SumSizes(total_processed)
             /\ finished[1].output = total_output_size_mb

==============================================================================
